---- MODULE Spec2Model ----
(***************************************************************************)
(* A model of swarms/tools/prebuilt/code_executor.py: the TikTokenizer's   *)
(* chunked, thread-pooled count_tokens and the CodeExecutor's execute.     *)
(*                                                                         *)
(* Strings are sequences of characters.  The characters "a" and "b" are    *)
(* ordinary text; "S" stands for the text of a special token, which the    *)
(* tokenizer refuses to encode (tiktoken raises ValueError on it).         *)
(***************************************************************************)
EXTENDS Integers, Sequences, FiniteSets, TLC

\* ---------------------------------------------------------------- bounds
\* The chunk length (1000 in the source, line 77) and the pool size (10 in
\* the source, line 82), scaled down so that texts of several chunks and
\* pools with more tasks than workers are explored exhaustively.
CHUNK_SIZE == 2
MAX_WORKERS == 2
\* Longest standard output of an executed program.
MaxTextLen == 5
\* Longest text given to count_tokens by the two direct callers.
MaxConcLen == 3
\* Largest configured max_output_length.
MaxOutputLength == 2

\* The chunk length of the source, for the chunking taken at full size.
SOURCE_CHUNK_SIZE == 1000

Chars == {"a", "b", "S"}
PlainChars == {"a", "b"}

StringsOver(alphabet, n) == UNION {[1..m -> alphabet] : m \in 0..n}

Texts == StringsOver(Chars, MaxTextLen)
ConcTexts == StringsOver(PlainChars, MaxConcLen)
Stderrs == {<<>>, <<"b", "o", "o", "m">>}

\* The two threads that call count_tokens; thread 1 is also the one that
\* runs execute.
Callers == {1, 2}

Min(x, y) == IF x < y THEN x ELSE y

\* ------------------------------------------------------------- tokenizer
\* The byte-pair encoding: one id per character, and the pair "a" "b"
\* merged into one token.
TokenId(ch) == IF ch = "a" THEN 1 ELSE IF ch = "b" THEN 2 ELSE 0

RECURSIVE Encode(_)
Encode(s) ==
    IF s = <<>> THEN <<>>
    ELSE IF Len(s) >= 2 /\ s[1] = "a" /\ s[2] = "b"
         THEN <<3>> \o Encode(Tail(Tail(s)))
         ELSE <<TokenId(s[1])>> \o Encode(Tail(s))

\* encode raises on a text that holds a special token.
EncodeRaises(s) == \E i \in 1..Len(s) : s[i] = "S"

\* string[start : stop] for 0 <= start <= stop.
PySlice(s, start, stop) == SubSeq(s, start + 1, Min(stop, Len(s)))

\* [string[i : i + size] for i in range(0, len(string), size)]
ChunksOf(s, size) ==
    LET starts == {i \in 0..(Len(s) - 1) : i % size = 0}
    IN  [j \in 1..Cardinality(starts) |->
            PySlice(s, (j - 1) * size, (j - 1) * size + size)]

\* range(0, len(string) + 1, 1000): one start too many.
ChunksOffByOne(s) ==
    LET starts == {i \in 0..Len(s) : i % CHUNK_SIZE = 0}
    IN  [j \in 1..Cardinality(starts) |->
            PySlice(s, (j - 1) * CHUNK_SIZE, (j - 1) * CHUNK_SIZE + CHUNK_SIZE)]

\* chunks, as count_tokens builds the list.
Chunks(s) == ChunksOf(s, CHUNK_SIZE)

\* ----------------------------------------------------------------- state
VARIABLES
    tokenizer,          \* the TikTokenizer: model_name and encoding
    max_output_length,  \* CodeExecutor.max_output_length: None or an integer
    pc,                 \* the position of execute
    code,               \* the code given to execute
    formatted_code,     \* format_code's result
    completed_process,  \* subprocess.run's result
    output,             \* execute's local output
    token_count,        \* execute's local token_count
    result,             \* what execute returned
    error,              \* what execute raised
    trace,              \* the stages execute went through in this call
    cpc,                \* per caller: the position of count_tokens
    string,             \* per caller: count_tokens' argument
    chunks,             \* per caller: the list of chunks
    num_tokens,         \* per caller: the closure's counter
    futures,            \* per caller: one future per submitted chunk
    ret                 \* per caller: what count_tokens returned

execVars == <<pc, code, formatted_code, completed_process, output,
              token_count, result, error, trace>>
countVars == <<cpc, string, chunks, num_tokens, futures, ret>>
vars == <<tokenizer, max_output_length, pc, code, formatted_code,
          completed_process, output, token_count, result, error, trace,
          cpc, string, chunks, num_tokens, futures, ret>>

None == [isNone |-> TRUE, val |-> 0]
Length(n) == [isNone |-> FALSE, val |-> n]
\* Python's truth value of max_output_length.
Truthy(m) == ~m.isNone /\ m.val # 0

NoCode == [syntax_ok |-> TRUE, formatted |-> FALSE, returncode |-> 0,
           stdout |-> <<>>, stderr |-> <<>>]
NoProcess == [returncode |-> 0, stdout |-> <<>>, stderr |-> <<>>]
NoError == [type |-> "none", msg |-> <<>>]

\* A piece of code is what the formatter and the interpreter do with it:
\* code that does not parse is never run, code that exits non-zero leaves
\* its standard error, code that exits zero leaves its standard output.
Programs ==
    [syntax_ok : {FALSE}, formatted : {FALSE}, returncode : {0},
     stdout : {<<>>}, stderr : {<<>>}]
    \cup [syntax_ok : {TRUE}, formatted : {FALSE}, returncode : {1},
          stdout : {<<>>, <<"a">>}, stderr : Stderrs]
    \cup [syntax_ok : {TRUE}, formatted : {FALSE}, returncode : {0},
          stdout : Texts, stderr : {<<>>}]

\* TikTokenizer.__init__ and CodeExecutor.__init__
Init ==
    /\ tokenizer = [model_name |-> "o200k_base", encoding |-> "o200k_base"]
    /\ max_output_length \in {None} \cup {Length(n) : n \in 0..MaxOutputLength}
    /\ pc = "constructed"
    /\ code = NoCode
    /\ formatted_code = NoCode
    /\ completed_process = NoProcess
    /\ output = <<>>
    /\ token_count = 0
    /\ result = <<>>
    /\ error = NoError
    /\ trace = <<>>
    /\ cpc = [c \in Callers |-> "idle"]
    /\ string = [c \in Callers |-> <<>>]
    /\ chunks = [c \in Callers |-> <<>>]
    /\ num_tokens = [c \in Callers |-> 0]
    /\ futures = [c \in Callers |-> <<>>]
    /\ ret = [c \in Callers |-> 0]

\* ---------------------------------------------------------- count_tokens
Future(st, ld, en) == [state |-> st, loaded |-> ld, encodes |-> en]

Running(c) == {k \in 1..Len(futures[c]) : futures[c][k].state \in {"running", "loaded"}}
Completed(c) == {k \in 1..Len(futures[c]) : futures[c][k].state \in {"done", "failed"}}

\* The entry of count_tokens: num_tokens = 0 and the list of chunks.
BeginCountTokens(c, s) ==
    /\ cpc[c] \in {"idle", "returned"}
    /\ string' = [string EXCEPT ![c] = s]
    /\ num_tokens' = [num_tokens EXCEPT ![c] = 0]
    /\ chunks' = [chunks EXCEPT ![c] = Chunks(s)]
    /\ futures' = [futures EXCEPT ![c] = <<>>]
    /\ ret' = [ret EXCEPT ![c] = 0]
    /\ cpc' = [cpc EXCEPT ![c] = IF Len(Chunks(s)) = 0 THEN "waiting" ELSE "submitting"]
    /\ UNCHANGED <<tokenizer, max_output_length>>

\* executor.submit(count_tokens_in_chunk, chunk), for the next chunk.
Submit(c) ==
    /\ cpc[c] = "submitting"
    /\ Len(futures[c]) < Len(chunks[c])
    /\ futures' = [futures EXCEPT ![c] = Append(@, Future("queued", 0, 0))]
    /\ cpc' = [cpc EXCEPT ![c] =
                 IF Len(futures[c]) + 1 = Len(chunks[c]) THEN "waiting" ELSE "submitting"]
    /\ UNCHANGED <<tokenizer, max_output_length, execVars, string, chunks, num_tokens, ret>>

\* A pool that starts a thread for every task.
StartTaskUnbounded(c, k) ==
    /\ k \in 1..Len(futures[c])
    /\ futures[c][k].state = "queued"
    /\ \A j \in 1..(k - 1) : futures[c][j].state # "queued"
    /\ futures' = [futures EXCEPT ![c][k].state = "running"]
    /\ UNCHANGED <<tokenizer, max_output_length, execVars, cpc, string, chunks, num_tokens, ret>>

\* A worker of the pool takes the oldest queued task, when fewer than
\* max_workers are at work.
StartTask(c, k) ==
    /\ k \in 1..Len(futures[c])
    /\ futures[c][k].state = "queued"
    /\ \A j \in 1..(k - 1) : futures[c][j].state # "queued"
    /\ Cardinality(Running(c)) < MAX_WORKERS
    /\ futures' = [futures EXCEPT ![c][k].state = "running"]
    /\ UNCHANGED <<tokenizer, max_output_length, execVars, cpc, string, chunks, num_tokens, ret>>

\* num_tokens += ...: the left operand is read first.
LoadCounter(c, k) ==
    /\ k \in 1..Len(futures[c])
    /\ futures[c][k].state = "running"
    /\ futures' = [futures EXCEPT ![c][k] = Future("loaded", num_tokens[c], @.encodes)]
    /\ UNCHANGED <<tokenizer, max_output_length, execVars, cpc, string, chunks, num_tokens, ret>>

\* The counter kept in one place for every call, not in the call's closure.
FinishTaskSharedCounter(c, k) ==
    /\ k \in 1..Len(futures[c])
    /\ futures[c][k].state = "loaded"
    /\ IF EncodeRaises(chunks[c][k])
       THEN /\ futures' = [futures EXCEPT ![c][k] = Future("failed", @.loaded, @.encodes + 1)]
            /\ UNCHANGED num_tokens
       ELSE /\ futures' = [futures EXCEPT ![c][k] = Future("done", @.loaded, @.encodes + 1)]
            /\ num_tokens' = [d \in Callers |->
                                futures[c][k].loaded + Len(Encode(chunks[c][k]))]
    /\ UNCHANGED <<tokenizer, max_output_length, execVars, cpc, string, chunks, ret>>

\* ... += len(self.encoding.encode(chunk)): the chunk is encoded and the
\* sum is stored; an exception of encode ends the task and stays in its
\* future.
FinishTask(c, k) ==
    /\ k \in 1..Len(futures[c])
    /\ futures[c][k].state = "loaded"
    /\ IF EncodeRaises(chunks[c][k])
       THEN /\ futures' = [futures EXCEPT ![c][k] = Future("failed", @.loaded, @.encodes + 1)]
            /\ UNCHANGED num_tokens
       ELSE /\ futures' = [futures EXCEPT ![c][k] = Future("done", @.loaded, @.encodes + 1)]
            /\ num_tokens' = [num_tokens EXCEPT ![c] =
                                futures[c][k].loaded + Len(Encode(chunks[c][k]))]
    /\ UNCHANGED <<tokenizer, max_output_length, execVars, cpc, string, chunks, ret>>

\* return num_tokens with no wait for the futures.
ReturnCountNoWait(c) ==
    /\ cpc[c] = "waiting"
    /\ ret' = [ret EXCEPT ![c] = num_tokens[c]]
    /\ cpc' = [cpc EXCEPT ![c] = "returned"]
    /\ UNCHANGED <<tokenizer, max_output_length, execVars, string, chunks, num_tokens, futures>>

\* concurrent.futures.wait(futures), the pool's shutdown, return num_tokens.
ReturnCount(c) ==
    /\ cpc[c] = "waiting"
    /\ Completed(c) = 1..Len(futures[c])
    /\ ret' = [ret EXCEPT ![c] = num_tokens[c]]
    /\ cpc' = [cpc EXCEPT ![c] = "returned"]
    /\ UNCHANGED <<tokenizer, max_output_length, execVars, string, chunks, num_tokens, futures>>

\* A thread calls tokenizer.count_tokens(s) directly.
CallCountTokens(c, s) ==
    /\ BeginCountTokens(c, s)
    /\ UNCHANGED execVars

\* --------------------------------------------------------------- execute
\* execute(code) is called.
Execute(p) ==
    /\ pc = "constructed"
    /\ code' = p
    /\ pc' = "received"
    /\ trace' = <<>>
    /\ error' = NoError
    /\ result' = <<>>
    /\ output' = <<>>
    /\ token_count' = 0
    /\ formatted_code' = NoCode
    /\ completed_process' = NoProcess
    /\ UNCHANGED <<tokenizer, max_output_length, countVars>>

\* A format_code that hands back the code it could not format.
FormatCodeSwallow ==
    /\ pc = "received"
    /\ trace' = Append(trace, "format")
    /\ formatted_code' = IF code.syntax_ok THEN [code EXCEPT !.formatted = TRUE] ELSE code
    /\ pc' = "formatted"
    /\ UNCHANGED error
    /\ UNCHANGED <<tokenizer, max_output_length, code, completed_process, output,
                   token_count, result, countVars>>

\* formatted_code = self.format_code(code): black returns the formatted
\* code, or format_code logs and raises ValueError.
FormatCode ==
    /\ pc = "received"
    /\ trace' = Append(trace, "format")
    /\ IF code.syntax_ok
       THEN /\ formatted_code' = [code EXCEPT !.formatted = TRUE]
            /\ pc' = "formatted"
            /\ UNCHANGED error
       ELSE /\ error' = [type |-> "ValueError", msg |-> <<"Error formatting code: ">>]
            /\ pc' = "raised"
            /\ UNCHANGED formatted_code
    /\ UNCHANGED <<tokenizer, max_output_length, code, completed_process, output,
                   token_count, result, countVars>>

\* subprocess.run without check=True.
RunProcessNoCheck ==
    /\ pc = "formatted"
    /\ trace' = Append(trace, "run")
    /\ completed_process' = [returncode |-> formatted_code.returncode,
                             stdout |-> formatted_code.stdout,
                             stderr |-> formatted_code.stderr]
    /\ pc' = "executed"
    /\ UNCHANGED error
    /\ UNCHANGED <<tokenizer, max_output_length, code, formatted_code, output,
                   token_count, result, countVars>>

\* subprocess.run([language, "-c", formatted_code], capture_output=True,
\* text=True, check=True); CalledProcessError becomes RuntimeError.
RunProcess ==
    /\ pc = "formatted"
    /\ trace' = Append(trace, "run")
    /\ IF formatted_code.returncode # 0
       THEN /\ error' = [type |-> "RuntimeError",
                         msg |-> <<"Error executing code: ">> \o formatted_code.stderr]
            /\ pc' = "raised"
            /\ UNCHANGED completed_process
       ELSE /\ completed_process' = [returncode |-> 0,
                                     stdout |-> formatted_code.stdout,
                                     stderr |-> formatted_code.stderr]
            /\ pc' = "executed"
            /\ UNCHANGED error
    /\ UNCHANGED <<tokenizer, max_output_length, code, formatted_code, output,
                   token_count, result, countVars>>

\* output = completed_process.stdout
CaptureOutput ==
    /\ pc = "executed"
    /\ trace' = Append(trace, "capture")
    /\ output' = completed_process.stdout
    /\ pc' = "captured"
    /\ UNCHANGED <<tokenizer, max_output_length, code, formatted_code, completed_process,
                   token_count, result, error, countVars>>

\* token_count = self.tokenizer.count_tokens(output): the call ...
CountOutput ==
    /\ pc = "captured"
    /\ trace' = Append(trace, "count")
    /\ BeginCountTokens(1, output)
    /\ pc' = "counting"
    /\ UNCHANGED <<code, formatted_code, completed_process, output, token_count,
                   result, error>>

\* ... and its return.
Counted ==
    /\ pc = "counting"
    /\ cpc[1] = "returned"
    /\ token_count' = ret[1]
    /\ pc' = "counted"
    /\ UNCHANGED <<tokenizer, max_output_length, code, formatted_code, completed_process,
                   output, result, error, trace, countVars>>

Ellipsis == <<".", ".", ".">>

\* The truncation without the marker.
TruncateNoMarker ==
    /\ pc = "counted"
    /\ IF Truthy(max_output_length) /\ token_count > max_output_length.val
       THEN /\ output' = PySlice(output, 0, max_output_length.val)
            /\ trace' = Append(trace, "truncate")
       ELSE /\ trace' = Append(trace, "pass")
            /\ UNCHANGED output
    /\ pc' = "decided"
    /\ UNCHANGED <<tokenizer, max_output_length, code, formatted_code, completed_process,
                   token_count, result, error, countVars>>

\* if self.max_output_length and token_count > self.max_output_length:
\*     output = output[: self.max_output_length] + "..."
Truncate ==
    /\ pc = "counted"
    /\ IF Truthy(max_output_length) /\ token_count > max_output_length.val
       THEN /\ output' = PySlice(output, 0, max_output_length.val) \o Ellipsis
            /\ trace' = Append(trace, "truncate")
       ELSE /\ trace' = Append(trace, "pass")
            /\ UNCHANGED output
    /\ pc' = "decided"
    /\ UNCHANGED <<tokenizer, max_output_length, code, formatted_code, completed_process,
                   token_count, result, error, countVars>>

\* return output
Return ==
    /\ pc = "decided"
    /\ trace' = Append(trace, "return")
    /\ result' = output
    /\ pc' = "returned"
    /\ UNCHANGED <<tokenizer, max_output_length, code, formatted_code, completed_process,
                   output, token_count, error, countVars>>

\* -------------------------------------------------------- specifications
\* One thread calls execute.
Next ==
    \/ pc = "constructed" /\ \E p \in Programs : Execute(p)
    \/ FormatCode
    \/ RunProcess
    \/ CaptureOutput
    \/ CountOutput
    \/ Submit(1)
    \/ \E k \in 1..Len(futures[1]) : StartTask(1, k)
    \/ \E k \in 1..Len(futures[1]) : LoadCounter(1, k)
    \/ \E k \in 1..Len(futures[1]) : FinishTask(1, k)
    \/ ReturnCount(1)
    \/ Counted
    \/ Truncate
    \/ Return

Spec == Init /\ [][Next]_vars

\* The threads of the process are scheduled fairly: the thread in execute
\* and every worker of the pool go on while they can.
LiveSpec ==
    /\ Init
    /\ [][Next]_vars
    /\ WF_vars(FormatCode \/ RunProcess \/ CaptureOutput \/ CountOutput)
    /\ WF_vars(Submit(1))
    /\ WF_vars(\E k \in 1..Len(futures[1]) : StartTask(1, k))
    /\ WF_vars(\E k \in 1..Len(futures[1]) : LoadCounter(1, k))
    /\ WF_vars(\E k \in 1..Len(futures[1]) : FinishTask(1, k))
    /\ WF_vars(ReturnCount(1))
    /\ WF_vars(Counted \/ Truncate \/ Return)

\* Two threads call count_tokens of the one tokenizer, each again and again.
ConcNext ==
    \/ \E c \in Callers : \E s \in ConcTexts : CallCountTokens(c, s)
    \/ \E c \in Callers : Submit(c)
    \/ \E c \in Callers : \E k \in 1..Len(futures[c]) : StartTask(c, k)
    \/ \E c \in Callers : \E k \in 1..Len(futures[c]) : LoadCounter(c, k)
    \/ \E c \in Callers : \E k \in 1..Len(futures[c]) : FinishTask(c, k)
    \/ \E c \in Callers : ReturnCount(c)

\* No executor takes part: its configuration is left out of the choice.
ConcInit == Init /\ max_output_length = None

ConcSpec == ConcInit /\ [][ConcNext]_vars

\* ---------------------------------------------------------------- claims
RECURSIVE SumCounts(_)
SumCounts(cs) == IF cs = <<>> THEN 0 ELSE Len(Encode(Head(cs))) + SumCounts(Tail(cs))

RECURSIVE Concat(_)
Concat(cs) == IF cs = <<>> THEN <<>> ELSE Head(cs) \o Concat(Tail(cs))

CeilDiv(n, d) == (n + d - 1) \div d

Contains(s, sub) ==
    \E i \in 1..(Len(s) - Len(sub) + 1) : SubSeq(s, i, i + Len(sub) - 1) = sub

Stages(t) == {t[i] : i \in 1..Len(t)}

IsPrefix(s, t) == Len(s) <= Len(t) /\ SubSeq(t, 1, Len(s)) = s

\* C1: for every text T that the tokenizer encodes, count_tokens(T) returns
\* len(encode(T)), the number of tokens of T encoded as a whole.  The claim
\* is taken on the calls in which every worker's addition took effect, so
\* that what refutes it is the chunking alone.
C1_CountEqualsWholeEncoding ==
    \A c \in Callers :
        (cpc[c] = "returned" /\ ~EncodeRaises(string[c])
                             /\ ret[c] = SumCounts(chunks[c]))
            => ret[c] = Len(Encode(string[c]))

\* C2: under every interleaving of the workers, count_tokens returns the
\* sum over all chunks of the chunk's token count: no addition is lost.
C2_ReturnIsSumOfChunkCounts ==
    \A c \in Callers :
        (cpc[c] = "returned" /\ ~EncodeRaises(string[c]))
            => ret[c] = SumCounts(chunks[c])

\* Texts around one, two and three chunks of the source's length.
LongLengths == {0, 1, 999, 1000, 1001, 1999, 2000, 2001}
LongText(n) == [i \in 1..n |-> IF i % 3 = 0 THEN "b" ELSE "a"]

\* C3: a text of length L is cut into ceil(L / CHUNK_SIZE) chunks, each
\* non-empty and at most CHUNK_SIZE long, which concatenated give the text;
\* exactly these are dispatched, and the empty text dispatches nothing and
\* counts 0.  The cut is checked at the source's chunk length too.
C3_Chunking ==
    /\ pc = "constructed" =>
           \A n \in LongLengths :
               LET cs == ChunksOf(LongText(n), SOURCE_CHUNK_SIZE)
               IN  /\ Len(cs) = CeilDiv(n, SOURCE_CHUNK_SIZE)
                   /\ \A k \in 1..Len(cs) :
                          Len(cs[k]) >= 1 /\ Len(cs[k]) <= SOURCE_CHUNK_SIZE
                   /\ Concat(cs) = LongText(n)
    /\ \A c \in Callers :
        cpc[c] # "idle" =>
            /\ Len(chunks[c]) = CeilDiv(Len(string[c]), CHUNK_SIZE)
            /\ \A k \in 1..Len(chunks[c]) :
                   Len(chunks[c][k]) >= 1 /\ Len(chunks[c][k]) <= CHUNK_SIZE
            /\ Concat(chunks[c]) = string[c]
            /\ Len(futures[c]) <= Len(chunks[c])
            /\ cpc[c] \in {"waiting", "returned"} => Len(futures[c]) = Len(chunks[c])
            /\ (cpc[c] = "returned" /\ string[c] = <<>>)
                   => (futures[c] = <<>> /\ ret[c] = 0)

C3_Witness ==
    \E c \in Callers :
        /\ cpc[c] = "returned"
        /\ Len(string[c]) > CHUNK_SIZE
        /\ Len(string[c]) % CHUNK_SIZE # 0
        /\ Len(futures[c]) = Len(chunks[c])

\* C4: whenever the formatter, the process or the encoding of a chunk fails,
\* execute raises: it returns no string computed from the steps that
\* succeeded.
C4_FailureRaises ==
    pc = "returned" =>
        /\ code.syntax_ok
        /\ code.returncode = 0
        /\ \A k \in 1..Len(futures[1]) : futures[1][k].state # "failed"

C6_NonZeroExit ==
    (code.returncode # 0 /\ "run" \in Stages(trace)) =>
        /\ pc = "raised"
        /\ error.type = "RuntimeError"
        /\ Contains(error.msg, code.stderr)
        /\ trace = <<"format", "run">>
        /\ cpc[1] = "idle"
        /\ output = <<>>
        /\ result = <<>>

C6_Witness ==
    /\ pc = "raised"
    /\ error.type = "RuntimeError"
    /\ code.stderr = <<"b", "o", "o", "m">>
    /\ Contains(error.msg, <<"b", "o", "o", "m">>)

\* C7: count_tokens returns only after every dispatched chunk has been
\* processed, and a call of count_tokens eventually returns.
C7_Barrier ==
    /\ [](\A c \in Callers :
            cpc[c] = "returned" =>
                /\ Len(futures[c]) = Len(chunks[c])
                /\ \A k \in 1..Len(futures[c]) :
                       futures[c][k].state \in {"done", "failed"})
    /\ \A c \in Callers :
           (cpc[c] \in {"submitting", "waiting"}) ~> (cpc[c] = "returned")

C7_Witness ==
    /\ cpc[1] = "returned"
    /\ Len(futures[1]) > MAX_WORKERS
    /\ \A k \in 1..Len(futures[1]) : futures[1][k].state \in {"done", "failed"}

\* C8: at most MAX_WORKERS chunks are being encoded at the same time, and
\* every dispatched chunk is encoded exactly once.
C8_BoundedPool ==
    \A c \in Callers :
        /\ Cardinality(Running(c)) <= MAX_WORKERS
        /\ \A k \in 1..Len(futures[c]) :
               /\ futures[c][k].encodes <= 1
               /\ futures[c][k].encodes = 1 <=> futures[c][k].state \in {"done", "failed"}
        /\ cpc[c] = "returned" =>
               /\ Len(futures[c]) = Len(chunks[c])
               /\ \A k \in 1..Len(futures[c]) : futures[c][k].encodes = 1

C8_Witness ==
    \E c \in Callers :
        /\ Cardinality(Running(c)) = MAX_WORKERS
        /\ \E k \in 1..Len(futures[c]) : futures[c][k].state = "queued"

\* C9: the stages of execute run in the order format, run, capture, count,
\* truncate or pass, return, none skipped or repeated; when formatting
\* fails, execute raises a format error and the process is never started.
C9_StageOrder ==
    /\ \/ IsPrefix(trace, <<"format", "run", "capture", "count", "truncate", "return">>)
       \/ IsPrefix(trace, <<"format", "run", "capture", "count", "pass", "return">>)
    /\ pc = "returned" => Len(trace) = 6
    /\ (~code.syntax_ok /\ "format" \in Stages(trace)) =>
           /\ pc = "raised"
           /\ error.type = "ValueError"
           /\ trace = <<"format">>
           /\ completed_process = NoProcess

C9_Witness ==
    /\ pc = "raised"
    /\ error.type = "ValueError"
    /\ ~code.syntax_ok

CallState(c) == <<cpc[c], string[c], chunks[c], num_tokens[c], futures[c], ret[c]>>

\* C10: calls of count_tokens do not interfere: a step of one call changes
\* nothing of another call and nothing of the tokenizer, every call starts
\* its counter at 0, and a call returns a count of its own chunks only.
C10_NoInterference ==
    /\ [][\A c \in Callers :
            CallState(c)' # CallState(c) =>
                /\ \A d \in Callers \ {c} : CallState(d)' = CallState(d)
                /\ tokenizer' = tokenizer
                /\ (cpc[c] \in {"idle", "returned"} /\ cpc'[c] \notin {"idle", "returned"})
                       => num_tokens'[c] = 0]_vars
    /\ [](\A c \in Callers :
            cpc[c] = "returned" =>
                /\ ret[c] <= SumCounts(chunks[c])
                /\ Len(chunks[c]) <= 1 => ret[c] = Len(Encode(string[c])))

C10_Witness ==
    /\ cpc[1] = "returned"
    /\ ret[1] > 0
    /\ string[1] # string[2]
    /\ \E k \in 1..Len(futures[2]) : futures[2][k].state = "loaded"
    /\ num_tokens[2] > 0
====
